---- MODULE Spec2Model ----
(***************************************************************************)
(* AudioSubManager: the resumable processing state (ProcessingState), the  *)
(* file job (process_single_mkv) and the batch orchestrator                *)
(* (process_mkv_files) that runs the file jobs in a multiprocessing.Pool;  *)
(* and, each called alone, the resource sizer                              *)
(* (calculate_optimal_processes), the track matcher                        *)
(* (find_matching_subtitle) and the file job of anime_mkvtool_vostfr.      *)
(*                                                                         *)
(* Python values are modelled as follows.  A filename is a string.  Any    *)
(* other text (an error message, a captured stderr) is the sequence of the *)
(* pieces it is concatenated from.  A set is a set, a dict is a function   *)
(* whose DOMAIN is its key set, a list is a sequence.  The state file is   *)
(* a record that says whether the file exists and what JSON text it holds. *)
(* The file system is assumed to work: open() and write() on the state     *)
(* file do not fail.                                                       *)
(***************************************************************************)
EXTENDS Integers, Sequences, FiniteSets, TLC

\* ------------------------------------------------------------------ bounds
MaxFiles == 2

\* ------------------------------------------------------- program constants
MIN_PROCESSES == 2
MAX_PROCESSES == 8

\* ---------------------------------------------------------------- universe
FileNames == <<"a.mkv", "b.mkv", "c.mkv", "d.mkv">>
Files == {FileNames[i] : i \in 1..MaxFiles}

\* Reasons a caller may pass to mark_as_failed.
Reasons == {<<"x">>, <<"y">>}

\* ------------------------------------------------------------ python dicts
EmptyDict == [k \in {} |-> <<>>]
DictSet(d, k, v) == [x \in (DOMAIN d) \cup {k} |-> IF x = k THEN v ELSE d[x]]
DictDel(d, k) == [x \in (DOMAIN d) \ {k} |-> d[x]]

\* list(s) of a Python set s: its elements once each, in an order the
\* interpreter chooses.
RECURSIVE ListsOf(_)
ListsOf(S) ==
  IF S = {} THEN {<<>>}
  ELSE UNION {{<<x>> \o t : t \in ListsOf(S \ {x})} : x \in S}

\* set(l) of a Python list (or of a str, given as the list of its characters).
SetOf(l) == {l[i] : i \in 1..Len(l)}

\* -------------------------------------------------------- the state file
\* kind: "missing"  no such file
\*       "empty"    zero bytes (just truncated by open(.., 'w'))
\*       "garbage"  text that is not JSON
\*       "array"    valid JSON whose top level is not an object
\*       "object"   a JSON object; pf and ff are its 'processed_files' and
\*                  'failed_files' members
\* pf.tag: "absent" | "list" (of strings) | "str" (a JSON string, items are
\*         its characters) | "num" (a number or null) | "nested" (a list
\*         holding a list)
\* ff.tag: "absent" | "dict"
NoPf == [tag |-> "absent", items |-> <<>>]
NoFf == [tag |-> "absent", map |-> EmptyDict]
RawFile(kind) == [kind |-> kind, pf |-> NoPf, ff |-> NoFf]
MissingFile == RawFile("missing")
EmptyFile == RawFile("empty")
GarbageFile == RawFile("garbage")
JsonObject(pf, ff) == [kind |-> "object", pf |-> pf, ff |-> ff]
StateDoc(list, dict) ==
  JsonObject([tag |-> "list", items |-> list], [tag |-> "dict", map |-> dict])

\* ----------------------------------------------------- ProcessingState
\* __init__ before load_state: empty set, empty dict.
NewState == [processed_files |-> {}, failed_files |-> EmptyDict]

\* The exception load_state's body raises on a file, "none" when it runs
\* through: json.load on text that is not JSON, state.get on a JSON value
\* that is no object, set() of a value that is not iterable or of a list
\* with an unhashable member.
load_error(file) ==
  CASE file.kind \in {"missing"} -> "none"
    [] file.kind \in {"empty", "garbage"} -> "JSONDecodeError"
    [] file.kind = "array" -> "AttributeError"
    [] file.pf.tag \in {"num", "nested"} -> "TypeError"
    [] OTHER -> "none"

\* load_state: the state after it, and the exception that leaves it ("none":
\* `except Exception` catches every error of the body, which occurs before
\* the first assignment).
load_state_lossy(self, file) ==
  IF file.kind = "object" /\ load_error(file) = "none"
  THEN [self |-> [processed_files |-> SetOf(file.pf.items),
                  failed_files |-> EmptyDict],
        raised |-> "none"]
  ELSE [self |-> self, raised |-> "none"]

load_state(self, file) ==
  IF file.kind = "object" /\ load_error(file) = "none"
  THEN [self |-> [processed_files |-> SetOf(file.pf.items),
                  failed_files |-> file.ff.map],
        raised |-> "none"]
  ELSE [self |-> self, raised |-> "none"]

\* ProcessingState(state_file): __init__ then load_state.
ProcessingState(file) == load_state(NewState, file).self

\* save_state: the documents json.dump may write (one per order of the list).
save_state(self) ==
  {StateDoc(l, self.failed_files) : l \in ListsOf(self.processed_files)}

\* mark_as_processed and mark_as_failed, up to their call of save_state.
mark_as_processed_keep(self, filename) ==
  [self EXCEPT !.processed_files = @ \cup {filename}]

mark_as_processed(self, filename) ==
  [processed_files |-> self.processed_files \cup {filename},
   failed_files |-> IF filename \in DOMAIN self.failed_files
                    THEN DictDel(self.failed_files, filename)
                    ELSE self.failed_files]

\* A mark_as_failed that leaves the failed mapping as it was.
mark_as_failed_dropped(self, filename, error) == self

mark_as_failed(self, filename, error) ==
  [self EXCEPT !.failed_files = DictSet(@, filename, error)]

is_processed_never(self, filename) == FALSE

is_processed(self, filename) == filename \in self.processed_files

get_failed_files(self) == self.failed_files


\* ------------------------------------------------------------------ tracks
\* str(track['id']) for the ids the model uses.
IdStr(id) == <<"0", "1", "2", "3", "4", "5">>[id + 1]

Track(id, type) == [id |-> id, type |-> type]

\* The None that choose_audio_tracks returns as the selection of a window
\* that was closed without a click on one of its buttons.
NoSelection == <<Track(-1, "None")>>

\* What `mkvmerge -J` reports for the representative file.
Catalogs ==
  {<<Track(0, "video")>>,
   <<Track(0, "video"), Track(1, "audio")>>,
   <<Track(0, "video"), Track(1, "audio"), Track(2, "subtitles")>>,
   <<Track(0, "video"), Track(1, "audio"), Track(2, "audio"),
     Track(3, "subtitles")>>}

\* What `mkvmerge -J` reports for the files of the batch, given the catalog
\* of the representative file: the same tracks under the same ids, or under
\* ids one higher, a further video track standing first.
NoFileTracks == [f \in Files |-> <<>>]

OwnCatalogs(reference) ==
  {[f \in Files |-> reference],
   [f \in Files |->
      <<Track(0, "video")>>
        \o [i \in 1..Len(reference) |->
              Track(reference[i].id + 1, reference[i].type)]]}

OfType(tracks, type) == SelectSeq(tracks, LAMBDA t : t.type = type)

\* The sublists of a list, order kept (what the check boxes can select).
RECURSIVE SubLists(_)
SubLists(l) ==
  IF l = <<>> THEN {<<>>}
  ELSE LET rest == SubLists(Tail(l))
       IN  rest \cup {<<Head(l)>> \o r : r \in rest}

\* ---------------------------------------------------------- track matcher
\* Bound: the longest candidate pool the matcher is called on.
MaxPool == 2

\* A track as `mkvmerge -J` reports it: id, type, codec and, in its
\* properties, a language and (has_name) a track_name.  A string the matcher
\* takes apart is the sequence of its characters.
MkvTrack(id, type, codec, language, has_name, track_name) ==
  [id |-> id, type |-> type, codec |-> codec, language |-> language,
   has_name |-> has_name, track_name |-> track_name]

\* The value None where a track is expected.
NoTrack == MkvTrack(0 - 1, "None", "", "", FALSE, <<>>)

\* track.get('properties', {}).get('track_name', '')
track_name(track) == IF track.has_name THEN track.track_name ELSE <<>>

ASCII_UPPERCASE ==
  <<"A", "B", "C", "D", "E", "F", "G", "H", "I", "J", "K", "L", "M",
    "N", "O", "P", "Q", "R", "S", "T", "U", "V", "W", "X", "Y", "Z">>
ASCII_LOWERCASE ==
  <<"a", "b", "c", "d", "e", "f", "g", "h", "i", "j", "k", "l", "m",
    "n", "o", "p", "q", "r", "s", "t", "u", "v", "w", "x", "y", "z">>

\* str.lower()
lower(s) ==
  [i \in 1..Len(s) |->
     IF \E k \in 1..26 : ASCII_UPPERCASE[k] = s[i]
     THEN ASCII_LOWERCASE[CHOOSE k \in 1..26 : ASCII_UPPERCASE[k] = s[i]]
     ELSE s[i]]

\* str.split(): the words between runs of blanks.
RECURSIVE split_from(_, _, _)
split_from(s, i, word) ==
  LET ended == IF word = <<>> THEN <<>> ELSE <<word>>
  IN  IF i > Len(s) THEN ended
      ELSE IF s[i] = " " THEN ended \o split_from(s, i + 1, <<>>)
      ELSE split_from(s, i + 1, Append(word, s[i]))

split(s) == split_from(s, 1, <<>>)

\* needle in hay
Contains(needle, hay) ==
  \E i \in 0..(Len(hay) - Len(needle)) :
    SubSeq(hay, i + 1, i + Len(needle)) = needle

\* What find_matching_subtitle hands back: a track, None, or an exception.
Found(track) == [kind |-> "track", track |-> track]
ReturnNone == [kind |-> "None", track |-> NoTrack]
Raise(exception) == [kind |-> exception, track |-> NoTrack]

\* subtitle_dict, as its items() go: a key stands where it was first
\* inserted and holds the last track inserted under it.
subtitle_dict(french_subtitles) ==
  LET n == Len(french_subtitles)
      name(i) == lower(track_name(french_subtitles[i]))
      firsts == SelectSeq([i \in 1..n |-> i],
                          LAMBDA i : \A j \in 1..(i - 1) : name(j) # name(i))
      last(i) == CHOOSE k \in i..n :
                   name(k) = name(i) /\ \A j \in (k + 1)..n : name(j) # name(i)
  IN  [p \in 1..Len(firsts) |->
         [name |-> name(firsts[p]),
          subtitle |-> french_subtitles[last(firsts[p])]]]

\* 1. exact search (name + codec)
exact_match(french_subtitles, selected_name, selected_codec) ==
  LET items == subtitle_dict(french_subtitles)
      hits == {p \in 1..Len(items) : items[p].name = selected_name}
  IN  IF hits = {} THEN ReturnNone
      ELSE LET match == items[CHOOSE p \in hits : TRUE].subtitle
           IN  IF match.codec = selected_codec THEN Found(match)
               ELSE ReturnNone

\* 2. partial search (the selected name is contained in another name)
partial_match(french_subtitles, selected_name) ==
  LET items == subtitle_dict(french_subtitles)
      hits == {p \in 1..Len(items) :
                 selected_name # <<>> /\ Contains(selected_name, items[p].name)}
  IN  IF hits = {} THEN ReturnNone
      ELSE Found(items[CHOOSE p \in hits : \A q \in hits : p <= q].subtitle)

\* highest_similarity > 0.5, the similarity being num / den.
above_threshold_inclusive(num, den) == 2 * num >= den

above_threshold(num, den) == 2 * num > den

\* 3. search by similarity: the loop from candidate i on, best_match and
\* highest_similarity = num / den so far.
RECURSIVE similarity_match(_, _, _, _, _, _)
similarity_match(french_subtitles, i, selected_name, best_match, num, den) ==
  IF i > Len(french_subtitles)
  THEN IF above_threshold(num, den) THEN Found(best_match) ELSE ReturnNone
  ELSE LET current_name == lower(track_name(french_subtitles[i]))
           selected_words == SetOf(split(selected_name))
           current_words == SetOf(split(current_name))
           common_words == selected_words \cap current_words
           longest == IF Cardinality(selected_words)
                           > Cardinality(current_words)
                      THEN Cardinality(selected_words)
                      ELSE Cardinality(current_words)
       IN  IF longest = 0 THEN Raise("ZeroDivisionError")
           ELSE IF Cardinality(common_words) * den > num * longest
           THEN similarity_match(french_subtitles, i + 1, selected_name,
                                 french_subtitles[i],
                                 Cardinality(common_words), longest)
           ELSE similarity_match(french_subtitles, i + 1, selected_name,
                                 best_match, num, den)

find_matching_subtitle(french_subtitles, selected_subtitle) ==
  IF french_subtitles = <<>> \/ selected_subtitle = NoTrack THEN ReturnNone
  ELSE LET selected_name == lower(track_name(selected_subtitle))
           selected_codec == selected_subtitle.codec
           exact == exact_match(french_subtitles, selected_name,
                                selected_codec)
           partial == partial_match(french_subtitles, selected_name)
           similar == similarity_match(french_subtitles, 1, selected_name,
                                       NoTrack, 0, 1)
       IN  IF exact.kind = "track" THEN exact
           ELSE IF partial.kind = "track" THEN partial
           ELSE IF similar.kind # "None" THEN similar
           ELSE Found(french_subtitles[1])

\* Track names and codecs of the catalogs the matcher is run on.
French == <<"F", "r", "e", "n", "c", "h">>
FrenchLower == <<"f", "r", "e", "n", "c", "h">>
FullSubs == <<"F", "u", "l", "l", " ", "S", "u", "b", "s">>
FullSubtitles ==
  <<"F", "u", "l", "l", " ", "S", "u", "b", "t", "i", "t", "l", "e", "s">>
SubsFull == <<"S", "u", "b", "s", " ", "F", "u", "l", "l">>
TrackNames == {French, FrenchLower, FullSubs, FullSubtitles, SubsFull}
Codecs == {"SubStationAlpha", "SubRip/SRT"}

\* The subtitle tracks a catalog may hold at id: named or not.
SubtitleTracks(id) ==
  {MkvTrack(id, "subtitles", c, "fre", TRUE, n) :
     c \in Codecs, n \in TrackNames}
  \cup {MkvTrack(id, "subtitles", c, "fre", FALSE, <<>>) : c \in Codecs}

\* Candidate pools: up to MaxPool tracks, ids in catalog order.
Pools ==
  UNION {{p \in [1..n -> SubtitleTracks(0)
                         \cup UNION {SubtitleTracks(k) : k \in 1..n}] :
            \A i \in 1..n : p[i].id = i} : n \in 0..MaxPool}

\* References: a track of the representative file, or None.
References == SubtitleTracks(2) \cup {NoTrack}

\* A call of find_matching_subtitle.
MatcherCall(pc, french_subtitles, selected_subtitle, result) ==
  [pc |-> pc, french_subtitles |-> french_subtitles,
   selected_subtitle |-> selected_subtitle, result |-> result]

NoMatcher == MatcherCall("none", <<>>, NoTrack, ReturnNone)

\* -------------------------------------------------------- resource sizer
MEMORY_PER_PROCESS_MIB == 500

\* Python evaluates the sizer in IEEE-754 double precision.  A float is
\* modelled exactly: bits is its integer significand (most significant
\* bit first, <<>> for zero) and its value is bits * 2^exp.  Arithmetic
\* on significands goes CHUNK_BITS bits at a time.
FLOAT_MANT_DIG == 53
CHUNK_BITS == 14
\* Quotient bits a division needs: the significand, a guard bit and the
\* nine bits a divisor below 512 can take off the dividend's length.
DIV_QUOTIENT_BITS == 63

Float(bits, exp) == [bits |-> bits, exp |-> exp]

Zeros(n) == [i \in 1..n |-> 0]

Strip(bits) ==
  LET ones == {i \in 1..Len(bits) : bits[i] = 1}
  IN  IF ones = {} THEN <<>>
      ELSE SubSeq(bits, CHOOSE i \in ones : \A j \in ones : i <= j, Len(bits))

\* The w-bit binary numeral of n < 2^w.
FixedBits(n, w) == [i \in 1..w |-> (n \div (2 ^ (w - i))) % 2]

Bits(n) == Strip(FixedBits(n, 2 * CHUNK_BITS))

RECURSIVE NatOf(_)
NatOf(bits) ==
  IF bits = <<>> THEN 0
  ELSE 2 * NatOf(SubSeq(bits, 1, Len(bits) - 1)) + bits[Len(bits)]

\* bits + 1.
Inc(bits) ==
  LET zeros == {i \in 1..Len(bits) : bits[i] = 0}
  IN  IF zeros = {} THEN <<1>> \o Zeros(Len(bits))
      ELSE LET k == CHOOSE i \in zeros : \A j \in zeros : i >= j
           IN  [i \in 1..Len(bits) |->
                  IF i < k THEN bits[i] ELSE IF i = k THEN 1 ELSE 0]

\* bits with leading zeros up to a whole number of chunks.
Pad(bits) ==
  Zeros((CHUNK_BITS - (Len(bits) % CHUNK_BITS)) % CHUNK_BITS) \o bits

float(n) == Float(Bits(n), 0)

\* Rounding of an exact result to the nearest double, ties to even.
FloatRound(x) ==
  LET b == Strip(x.bits)
  IN  IF Len(b) <= FLOAT_MANT_DIG THEN Float(b, x.exp)
      ELSE LET keep == SubSeq(b, 1, FLOAT_MANT_DIG)
               guard == b[FLOAT_MANT_DIG + 1]
               sticky == \E i \in (FLOAT_MANT_DIG + 2)..Len(b) : b[i] = 1
               up == guard = 1 /\ (sticky \/ keep[FLOAT_MANT_DIG] = 1)
           IN  Float(IF up THEN Inc(keep) ELSE keep,
                     x.exp + Len(b) - FLOAT_MANT_DIG)

\* n * x for an int 0 <= n < 2^CHUNK_BITS and a float x: the exact
\* product, then rounded.
RECURSIVE MulChunks(_, _, _)
MulChunks(n, bits, carry) ==
  IF bits = <<>> THEN Bits(carry)
  ELSE LET cut == Len(bits) - CHUNK_BITS
           v == NatOf(SubSeq(bits, cut + 1, Len(bits))) * n + carry
       IN  MulChunks(n, SubSeq(bits, 1, cut), v \div (2 ^ CHUNK_BITS))
             \o FixedBits(v % (2 ^ CHUNK_BITS), CHUNK_BITS)

FloatMulInt(n, x) == FloatRound(Float(MulChunks(n, Pad(x.bits), 0), x.exp))

\* x / d for a float x and an int 0 < d < 512: long division of the
\* significand extended to DIV_QUOTIENT_BITS bits, a remainder kept as a
\* last sticky bit.
RECURSIVE DivChunks(_, _, _, _)
DivChunks(bits, i, d, rem) ==
  IF i > Len(bits) THEN [q |-> <<>>, rem |-> rem]
  ELSE LET v == rem * (2 ^ CHUNK_BITS)
                  + NatOf(SubSeq(bits, i, i + CHUNK_BITS - 1))
           rest == DivChunks(bits, i + CHUNK_BITS, d, v % d)
       IN  [q |-> FixedBits(v \div d, CHUNK_BITS) \o rest.q,
            rem |-> rest.rem]

FloatDivInt(x, d) ==
  LET extra == IF Len(x.bits) >= DIV_QUOTIENT_BITS THEN 0
               ELSE DIV_QUOTIENT_BITS - Len(x.bits)
      res == DivChunks(Pad(x.bits \o Zeros(extra)), 1, d, 0)
  IN  IF res.rem = 0 THEN FloatRound(Float(res.q, x.exp - extra))
      ELSE FloatRound(Float(Append(res.q, 1), x.exp - extra - 1))

\* 1 - x for a float 0 <= x <= 1.
OneMinusFloat(x) ==
  LET b == Strip(x.bits)
      f == 0 - x.exp
  IN  IF b = <<>> THEN float(1)
      ELSE IF Len(b) > f THEN float(0)
      ELSE LET padded == Zeros(f - Len(b)) \o b
               flipped == [i \in 1..f |-> 1 - padded[i]]
           IN  FloatRound(Float(Inc(flipped), x.exp))

\* int(x) for a float x >= 0.
IntOfFloat(x) ==
  LET b == Strip(x.bits)
  IN  IF x.exp >= 0 THEN NatOf(b \o Zeros(x.exp))
      ELSE IF Len(b) + x.exp <= 0 THEN 0
      ELSE NatOf(SubSeq(b, 1, Len(b) + x.exp))

\* CONFIG['MEMORY_BUFFER_PERCENTAGE'], the literal 0.2.
MEMORY_BUFFER_PERCENTAGE == FloatDivInt(float(2), 10)

\* The sizer without its final clamp.
calculate_optimal_processes_unclamped(cpu_count, available_memory, cpu_percent) ==
  LET max_cpu == IF cpu_count > 4 THEN cpu_count \div 2 ELSE cpu_count
      memory_based_processes ==
        IntOfFloat(FloatDivInt(
          FloatMulInt(available_memory,
                      OneMinusFloat(MEMORY_BUFFER_PERCENTAGE)),
          MEMORY_PER_PROCESS_MIB))
      cpu_based_processes ==
        IntOfFloat(FloatMulInt(max_cpu,
          OneMinusFloat(FloatDivInt(float(cpu_percent), 100))))
      Min(a, b) == IF a < b THEN a ELSE b
  IN  Min(memory_based_processes, Min(cpu_based_processes, max_cpu))

\* calculate_optimal_processes on a host with cpu_count cores,
\* available_memory MiB of free memory (the byte count and the 500 MiB
\* divisor share the factor 2^20, which no rounding sees) and a load of
\* cpu_percent %, a whole number; available_memory < 2^CHUNK_BITS.
calculate_optimal_processes(cpu_count, available_memory, cpu_percent) ==
  LET max_cpu == IF cpu_count > 4 THEN cpu_count \div 2 ELSE cpu_count
      memory_based_processes ==
        IntOfFloat(FloatDivInt(
          FloatMulInt(available_memory,
                      OneMinusFloat(MEMORY_BUFFER_PERCENTAGE)),
          MEMORY_PER_PROCESS_MIB))
      cpu_based_processes ==
        IntOfFloat(FloatMulInt(max_cpu,
          OneMinusFloat(FloatDivInt(float(cpu_percent), 100))))
      Min(a, b) == IF a < b THEN a ELSE b
      Max(a, b) == IF a > b THEN a ELSE b
      optimal_processes ==
        Min(memory_based_processes, Min(cpu_based_processes, max_cpu))
  IN  Max(MIN_PROCESSES, Min(optimal_processes, MAX_PROCESSES))

\* Host samples the batch run is sized on.
CpuCounts == {2, 8}
AvailableMemories == {0, 4096}
CpuPercents == {0, 100}

\* What get_system_resources and multiprocessing.cpu_count() read on a host.
Resources(cpu_count, available_memory, cpu_percent) ==
  [cpu_count |-> cpu_count, available_memory |-> available_memory,
   cpu_percent |-> cpu_percent]

NoResources == Resources(0, 0, 0)

\* Hosts the sizer is called on by itself: 1 to 64 cores, no free memory to
\* 16000 MiB, idle to fully loaded.
Hosts ==
  {Resources(c, m, l) : c \in {1, 2, 4, 5, 8, 12, 16, 30, 40, 64},
                        m \in {0, 500, 1875, 2048, 4096, 16000},
                        l \in {0, 20, 50, 80, 90, 100}}

\* ---------------------------------------------------------------- file job
FileIndex(filename) == CHOOSE i \in 1..Len(FileNames) : FileNames[i] = filename
output_path(filename) ==
  <<"processed_a.mkv", "processed_b.mkv", "processed_c.mkv",
    "processed_d.mkv">>[FileIndex(filename)]

\* The pending exception of a job: its class and str(e) (e.stderr for a
\* CalledProcessError).
NoExc == [type |-> "none", text |-> <<>>]
Exc(type, text) == [type |-> type, text |-> text]

\* The except clause of process_single_mkv that takes an exception of a
\* class ("uncaught": none does).  Every class the model raises derives
\* from Exception.
except_clause_narrow(type) ==
  CASE type = "CalledProcessError" -> "CalledProcessError"
    [] type = "ProcessingError" -> "ProcessingError"
    [] OTHER -> "uncaught"

except_clause(type) ==
  CASE type = "CalledProcessError" -> "CalledProcessError"
    [] type = "ProcessingError" -> "ProcessingError"
    [] OTHER -> "Exception"

\* The message of a handler that formats the exception and not its stderr.
error_message_without_stderr(filename, exc) ==
  CASE except_clause(exc.type) = "CalledProcessError" ->
         <<"Erreur lors du traitement de ", filename, ": ",
           "Command returned non-zero exit status 1.">>
    [] except_clause(exc.type) = "ProcessingError" -> exc.text
    [] OTHER ->
         <<"Erreur inattendue lors du traitement de ", filename, ": ">>
           \o exc.text

\* The message the clause records with mark_as_failed.
error_message(filename, exc) ==
  CASE except_clause(exc.type) = "CalledProcessError" ->
         <<"Erreur lors du traitement de ", filename, ": ">> \o exc.text
    [] except_clause(exc.type) = "ProcessingError" -> exc.text
    [] OTHER ->
         <<"Erreur inattendue lors du traitement de ", filename, ": ">>
           \o exc.text

\* The mkvmerge command of process_single_mkv.
RECURSIVE TrackOptions(_, _)
TrackOptions(option, tracks) ==
  IF tracks = <<>> THEN <<>>
  ELSE <<option, IdStr(Head(tracks).id)>> \o TrackOptions(option, Tail(tracks))

build_command(filename, selected_audio, selected_subs) ==
  <<"mkvmerge", "-o", output_path(filename)>>
    \o TrackOptions("--audio-tracks", selected_audio)
    \o TrackOptions("--subtitle-tracks", selected_subs)
    \o <<filename>>

\* get_mkv_tracks (the same function in both programs): what mkvmerge -J did
\* on the file ("tracks": exit 0 and a JSON report; "nonzero": a non-zero
\* exit; "badjson": exit 0 and a standard output that is no JSON), and what
\* the function gives its caller: "tracks" (the parsed report), "None", or
\* the exception it lets through.
MkvmergeReports == {"tracks", "nonzero", "badjson"}

get_mkv_tracks(report) ==
  CASE report = "nonzero" -> "None"
    [] report = "badjson" -> "JSONDecodeError"
    [] OTHER -> "tracks"

\* What the environment may answer to a job.
FreeSpaces == {2, 3}
FileSizes == {2}
Stderrs == {"unsupported codec"}
OsErrors == {"[Errno 2] No such file or directory"}

\* line 785: free_space < file_size * 1.5, on whole numbers of bytes.
insufficient_space_below_size(free_space, file_size) == free_space < file_size

insufficient_space(free_space, file_size) == 2 * free_space < 3 * file_size

IdleJob ==
  [pc |-> "idle", st |-> NewState, shared |-> FALSE, ret |-> "none",
   pending |-> "none", exc |-> NoExc, checked |-> FALSE, free_space |-> 0,
   file_size |-> 0, invoked |-> FALSE, command |-> <<>>]

\* ------------------------------- anime_mkvtool_vostfr.process_single_mkv
\* ','.join(map(str, ids))
RECURSIVE Join(_)
Join(ids) ==
  IF ids = <<>> THEN ""
  ELSE IF Len(ids) = 1 THEN IdStr(ids[1])
  ELSE IdStr(ids[1]) \o "," \o Join(Tail(ids))

\* CONFIG['SUPPORTED_LANGUAGES']['subtitle_target']
SUBTITLE_TARGET == {"fre", "fr"}

\* f"{os.path.splitext(filename)[0]}_processed.mkv"
output_filename(filename) ==
  <<"a_processed.mkv", "b_processed.mkv", "c_processed.mkv",
    "d_processed.mkv">>[FileIndex(filename)]

\* The tracks of the representative file the user selects from.
Japanese == <<"J", "a", "p", "a", "n", "e", "s", "e">>
RepresentativeTracks ==
  <<MkvTrack(0, "video", "AVC", "und", FALSE, <<>>),
    MkvTrack(1, "audio", "AAC", "jpn", TRUE, Japanese),
    MkvTrack(2, "audio", "AAC", "fre", FALSE, <<>>),
    MkvTrack(3, "subtitles", "SubStationAlpha", "fre", TRUE, FullSubs),
    MkvTrack(4, "subtitles", "SubRip/SRT", "fre", TRUE, French)>>

\* What `mkvmerge -J` reports for the file of a job: the representative
\* file's tracks; the same tracks, subtitles first; no French subtitle; no
\* audio track; tracks without a name and of other codecs.
FileCatalogs ==
  {RepresentativeTracks,
   <<MkvTrack(0, "video", "AVC", "und", FALSE, <<>>),
     MkvTrack(1, "subtitles", "SubStationAlpha", "fre", TRUE, FullSubs),
     MkvTrack(2, "subtitles", "SubRip/SRT", "fre", TRUE, French),
     MkvTrack(3, "audio", "AAC", "jpn", TRUE, Japanese),
     MkvTrack(4, "audio", "AAC", "fre", FALSE, <<>>)>>,
   <<MkvTrack(0, "video", "AVC", "und", FALSE, <<>>),
     MkvTrack(1, "audio", "AAC", "jpn", TRUE, Japanese),
     MkvTrack(2, "subtitles", "SubRip/SRT", "eng", TRUE, FullSubs)>>,
   <<MkvTrack(0, "video", "AVC", "und", FALSE, <<>>),
     MkvTrack(1, "subtitles", "SubRip/SRT", "fre", TRUE, French)>>,
   <<MkvTrack(0, "video", "AVC", "und", FALSE, <<>>),
     MkvTrack(1, "audio", "AC-3", "jpn", FALSE, <<>>),
     MkvTrack(2, "subtitles", "SubStationAlpha", "fre", FALSE, <<>>)>>}

french_subtitles_of(track_info) ==
  SelectSeq(track_info,
            LAMBDA track : track.type = "subtitles"
                           /\ track.language \in SUBTITLE_TARGET)

\* The local variables of a call and how far it came: outcome "cmd" (the
\* command is built), "False" (returned False) or the exception raised.
Locals(outcome, matching_audio_tracks, bound, subtitle_tracks_to_keep, cmd) ==
  [outcome |-> outcome, matching_audio_tracks |-> matching_audio_tracks,
   bound |-> bound, subtitle_tracks_to_keep |-> subtitle_tracks_to_keep,
   cmd |-> cmd]

\* lines 508-514: the tracks of the pool matched to the selected ones, in
\* the order of the selection; kind "track" with the list, or the exception
\* a call of the matcher raised.
append_matching(matching, rest) ==
  IF matching.kind \notin {"track", "None"}
  THEN [kind |-> matching.kind, tracks |-> <<>>]
  ELSE IF rest.kind # "track" THEN rest
  ELSE IF matching.kind = "track"
  THEN [kind |-> "track", tracks |-> <<matching.track>> \o rest.tracks]
  ELSE rest

RECURSIVE matching_tracks(_, _)
matching_tracks(pool, selected) ==
  IF selected = <<>> THEN [kind |-> "track", tracks |-> <<>>]
  ELSE append_matching(find_matching_subtitle(pool, Head(selected)),
                       matching_tracks(pool, Tail(selected)))

\* lines 521-528: the command up to the audio tracks.
command_head(filename, matching_audio_tracks) ==
  <<"mkvmerge", "-o", output_filename(filename),
    "--audio-tracks",
    Join([i \in 1..Len(matching_audio_tracks) |->
            matching_audio_tracks[i].id]),
    "--default-track", IdStr(matching_audio_tracks[1].id) \o ":yes">>

\* lines 536-550: a main subtitle is selected; main is its match among the
\* French subtitles of the file, others the matches of the other selected
\* subtitles.
subtitle_stage(filename, matching_audio_tracks, main, others) ==
  IF main.kind \notin {"track", "None"}
  THEN Locals(main.kind, matching_audio_tracks, FALSE, <<>>, <<>>)
  ELSE IF main.kind = "None"
  THEN Locals("cmd", matching_audio_tracks, FALSE, <<>>,
              command_head(filename, matching_audio_tracks) \o <<filename>>)
  ELSE IF others.kind # "track"
  THEN Locals(others.kind, matching_audio_tracks, TRUE, <<main.track.id>>,
              <<>>)
  ELSE LET kept == SelectSeq(others.tracks, LAMBDA t : t.id # main.track.id)
           subtitle_tracks_to_keep ==
             <<main.track.id>> \o [i \in 1..Len(kept) |-> kept[i].id]
       IN  Locals("cmd", matching_audio_tracks, TRUE, subtitle_tracks_to_keep,
                  command_head(filename, matching_audio_tracks)
                    \o <<"--subtitle-tracks", Join(subtitle_tracks_to_keep),
                         "--default-track", IdStr(main.track.id) \o ":yes",
                         filename>>)

\* lines 516-555: audio holds the audio tracks matched.
audio_stage(filename, audio, french_subtitles, selected_main_subtitle, selected_subtitles) ==
  IF audio.kind # "track" THEN Locals(audio.kind, <<>>, FALSE, <<>>, <<>>)
  ELSE IF audio.tracks = <<>> THEN Locals("False", <<>>, FALSE, <<>>, <<>>)
  ELSE IF selected_main_subtitle = NoTrack
  THEN Locals("cmd", audio.tracks, FALSE, <<>>,
              command_head(filename, audio.tracks)
                \o <<"--no-subtitles", filename>>)
  ELSE subtitle_stage(filename, audio.tracks,
                      find_matching_subtitle(french_subtitles,
                                             selected_main_subtitle),
                      matching_tracks(french_subtitles, selected_subtitles))

\* lines 507-555 of process_single_mkv, from the tracks of the file to the
\* command.
prepare_command(filename, track_info, selected_audio_tracks, selected_main_subtitle, selected_subtitles) ==
  audio_stage(filename,
              matching_tracks(OfType(track_info, "audio"),
                              selected_audio_tracks),
              french_subtitles_of(track_info),
              selected_main_subtitle, selected_subtitles)

\* A call of process_single_mkv: its arguments, the tracks of its file, its
\* local variables, whether mkvmerge was run on the command, and what the
\* call returned ("True", "False") or raised; report is what mkvmerge -J did
\* on the file and track_info what get_mkv_tracks gave the call.
VJob(pc, filename, tracks, selected_audio_tracks, selected_main_subtitle, selected_subtitles) ==
  [pc |-> pc, filename |-> filename, tracks |-> tracks,
   selected_audio_tracks |-> selected_audio_tracks,
   selected_main_subtitle |-> selected_main_subtitle,
   selected_subtitles |-> selected_subtitles,
   report |-> "none", track_info |-> "none",
   locals |-> Locals("none", <<>>, FALSE, <<>>, <<>>),
   invoked |-> FALSE, ret |-> "none"]

NoVJob == VJob("none", "", <<>>, <<>>, NoTrack, <<>>)

\* No store operation yet.
NoCall ==
  [op |-> "none", filename |-> "", error |-> <<>>, pre |-> NewState,
   prev_op |-> "none", prev_filename |-> ""]

VARIABLES
  state_file,             \* processing_state.json
  persisted0,             \* history: the state file when the run began
  pc,                     \* where process_mkv_files (or the caller) stands
  state,                  \* the caller's ProcessingState
  mkv_files,              \* the .mkv files of the input directory, listed
  track_info,             \* catalog of the representative file
  selected_audio_tracks,
  selected_subtitles,
  num_processes,
  jobs,                   \* per file: the call of process_single_mkv
  results,                \* what pool.starmap returned
  failed_files,           \* state.get_failed_files() read for the summary
  hist,                   \* history: the last store operation
  fresh,                  \* a ProcessingState constructed on the same file
  file_tracks,            \* per file: the tracks mkvmerge -J reports for it
  resources,              \* the host readings of calculate_optimal_processes
  matcher,                \* a call of find_matching_subtitle
  vjob                    \* a call of anime_mkvtool_vostfr.process_single_mkv

vars ==
  <<state_file, persisted0, pc, state, mkv_files, track_info,
    selected_audio_tracks, selected_subtitles, num_processes, jobs, results,
    failed_files, hist, fresh, file_tracks, resources, matcher, vjob>>

\* What the steps of AudioSubManager's batch run and of its state store never
\* write.
aux_vars == <<file_tracks, resources, matcher, vjob>>

orch_vars ==
  <<aux_vars, persisted0, pc, mkv_files, track_info, selected_audio_tracks,
    selected_subtitles, num_processes, results, failed_files, hist, fresh>>

Active(f) == jobs[f].pc \notin {"idle", "queued", "done"}
Dispatched == {f \in Files : jobs[f].pc # "idle"}

\* A step of the job of file f to record j.  A job called directly works on
\* the caller's ProcessingState object; a job run by a pool worker works on
\* the copy unpickled from its task.
JobUpdate(f, j) ==
  /\ jobs' = [jobs EXCEPT ![f] = j]
  /\ state' = IF j.shared THEN j.st ELSE state

\* pool worker: takes the task of file f off the queue and unpickles its
\* arguments, the ProcessingState among them.
JobStart(f) ==
  /\ pc = "pool"
  /\ jobs[f].pc = "queued"
  /\ Cardinality({g \in Files : Active(g)}) < num_processes
  /\ JobUpdate(f, [jobs[f] EXCEPT !.pc = "entry", !.st = state])
  /\ UNCHANGED <<state_file, orch_vars>>

\* lines 774-779
JobIsProcessed(f) ==
  /\ jobs[f].pc = "entry"
  /\ IF is_processed(jobs[f].st, f)
     THEN JobUpdate(f, [jobs[f] EXCEPT !.pc = "done", !.ret = "True"])
     ELSE JobUpdate(f, [jobs[f] EXCEPT !.pc = "check_space"])
  /\ UNCHANGED <<state_file, orch_vars>>

\* lines 783-786
JobCheckSpace(f) ==
  /\ jobs[f].pc = "check_space"
  /\ \/ \E e \in OsErrors :
          JobUpdate(f, [jobs[f] EXCEPT !.pc = "except",
                                       !.exc = Exc("OSError", <<e>>)])
     \/ \E free_space \in FreeSpaces, file_size \in FileSizes :
          LET measured == [jobs[f] EXCEPT !.checked = TRUE,
                                          !.free_space = free_space,
                                          !.file_size = file_size]
          IN  IF insufficient_space(free_space, file_size)
              THEN JobUpdate(f, [measured EXCEPT
                     !.pc = "except",
                     !.exc = Exc("ProcessingError",
                                 <<"Espace disque insuffisant pour traiter ",
                                   f>>)])
              ELSE JobUpdate(f, [measured EXCEPT !.pc = "run"])
  /\ UNCHANGED <<state_file, orch_vars>>

\* lines 789-802: builds the command and runs it; the loop over a selection
\* that is None raises TypeError.
JobRun(f) ==
  /\ jobs[f].pc = "run"
  /\ IF selected_audio_tracks = NoSelection
     THEN JobUpdate(f, [jobs[f] EXCEPT
            !.pc = "except",
            !.exc = Exc("TypeError",
                        <<"'NoneType' object is not iterable">>)])
     ELSE LET ran == [jobs[f] EXCEPT
                        !.invoked = TRUE,
                        !.command = build_command(f, selected_audio_tracks,
                                                  selected_subtitles)]
          IN \/ JobUpdate(f, [ran EXCEPT !.pc = "verify"])
             \/ \E stderr \in Stderrs :
                  JobUpdate(f, [ran EXCEPT
                    !.pc = "except",
                    !.exc = Exc("CalledProcessError", <<stderr>>)])
             \/ \E e \in OsErrors :
                  JobUpdate(f, [ran EXCEPT !.pc = "except",
                                           !.exc = Exc("OSError", <<e>>)])
  /\ UNCHANGED <<state_file, orch_vars>>

\* lines 805-806
JobVerify(f) ==
  /\ jobs[f].pc = "verify"
  /\ \E output_ok \in BOOLEAN :
       IF output_ok
       THEN JobUpdate(f, [jobs[f] EXCEPT !.pc = "mark"])
       ELSE JobUpdate(f, [jobs[f] EXCEPT
              !.pc = "except",
              !.exc = Exc("ProcessingError",
                          <<"Le fichier de sortie ", output_path(f),
                            " est vide ou n'existe pas">>)])
  /\ UNCHANGED <<state_file, orch_vars>>

\* line 808, to the open() of save_state: the file is truncated.
JobMarkProcessed(f) ==
  /\ jobs[f].pc = "mark"
  /\ JobUpdate(f, [jobs[f] EXCEPT !.pc = "save_state", !.pending = "True",
                                  !.st = mark_as_processed(@, f)])
  /\ state_file' = EmptyFile
  /\ UNCHANGED orch_vars

\* lines 812-825, to the open() of save_state; an exception no clause takes
\* leaves the job.
JobExcept(f) ==
  /\ jobs[f].pc = "except"
  /\ IF except_clause(jobs[f].exc.type) = "uncaught"
     THEN /\ JobUpdate(f, [jobs[f] EXCEPT !.pc = "done", !.ret = "raised"])
          /\ state_file' = state_file
     ELSE /\ JobUpdate(f, [jobs[f] EXCEPT
               !.pc = "save_state", !.pending = "False",
               !.st = mark_as_failed(@, f, error_message(f, jobs[f].exc))])
          /\ state_file' = EmptyFile
  /\ UNCHANGED orch_vars

\* json.dump and close of save_state, then the job's return.  Written over
\* what another writer put there since this one's open(), the file holds this
\* document or, when the other text was longer, this document and the other's
\* tail.
JobSaveState(f) ==
  /\ jobs[f].pc = "save_state"
  /\ \/ state_file' \in save_state(jobs[f].st)
     \/ state_file.kind # "empty" /\ state_file' = GarbageFile
  /\ JobUpdate(f, [jobs[f] EXCEPT !.pc = "done", !.ret = jobs[f].pending])
  /\ UNCHANGED orch_vars


\* ------------------------------------------------------- process_mkv_files
\* lines 829-832: the state file of an earlier run is removed.
reset_state_file_kept(file) == file

reset_state_file(file) == IF file.kind # "missing" THEN MissingFile ELSE file

\* lines 828-842
Start ==
  /\ pc = "start"
  /\ LET removed == reset_state_file(state_file)
         loaded == ProcessingState(removed)
     IN /\ state_file' = removed
        /\ IF get_failed_files(loaded) # EmptyDict
           THEN \E retry \in BOOLEAN :
                  state' = IF retry THEN loaded ELSE ProcessingState(removed)
           ELSE state' = loaded
  /\ pc' = "list"
  /\ UNCHANGED <<aux_vars, persisted0, mkv_files, track_info, selected_audio_tracks,
                 selected_subtitles, num_processes, jobs, results,
                 failed_files, hist, fresh>>

\* lines 844-846: the run ends when the directory holds no .mkv file.
after_listing_unchecked(files) == "analyze"

after_listing(files) == IF files = <<>> THEN "EmptyInput" ELSE "analyze"

\* lines 861-865 and 871-875: where the run goes after a selection window
\* was closed by click (one of its three buttons, or "close": the window
\* itself was closed), next being the step after a confirmed choice.
Clicks == {"confirm", "cancel", "back", "close"}

after_choice_always_back(click, next) == "select"

after_choice(click, next) ==
  CASE click = "cancel" -> "Canceled"
    [] click = "back" -> "select"
    [] OTHER -> next

\* lines 876-880: the loop is left, then the sizer is called once and the
\* pool created.
after_sizing_reselect == "select"

after_sizing == "dispatch"

\* lines 843-846
ListFiles ==
  /\ pc = "list"
  /\ pc' = after_listing(mkv_files)
  /\ UNCHANGED <<aux_vars, state_file, persisted0, state, mkv_files, track_info,
                 selected_audio_tracks, selected_subtitles, num_processes,
                 jobs, results, failed_files, hist, fresh>>

\* lines 847-855: metadata query on the representative file.  get_mkv_tracks
\* returns None when mkvmerge exits non-zero and lets the JSONDecodeError of
\* an unparseable standard output pass.
Analyze ==
  /\ pc = "analyze"
  /\ \E report \in MkvmergeReports, catalog \in Catalogs :
       CASE get_mkv_tracks(report) = "None" ->
              pc' = "Aborted" /\ track_info' = track_info
         [] get_mkv_tracks(report) = "JSONDecodeError" ->
              pc' = "raised" /\ track_info' = track_info
         [] OTHER ->
              /\ track_info' = catalog
              /\ pc' = IF OfType(catalog, "audio") = <<>>
                       THEN "Aborted" ELSE "select"
  /\ UNCHANGED <<aux_vars, state_file, persisted0, state, mkv_files,
                 selected_audio_tracks, selected_subtitles, num_processes,
                 jobs, results, failed_files, hist, fresh>>

\* lines 859-876: one turn of the selection loop.
Select ==
  /\ pc = "select"
  /\ \E click \in Clicks,
        audio \in SubLists(OfType(track_info, "audio")) \ {<<>>} :
       IF after_choice(click, "subtitles") # "subtitles"
       THEN /\ pc' = after_choice(click, "subtitles")
            /\ UNCHANGED <<selected_audio_tracks, selected_subtitles>>
       ELSE /\ selected_audio_tracks'
                 = IF click = "close" THEN NoSelection ELSE audio
            /\ LET all_subtitles == OfType(track_info, "subtitles")
               IN IF all_subtitles = <<>>
                  THEN selected_subtitles' = <<>> /\ pc' = "size"
                  ELSE \E click2 \in Clicks,
                          subs \in SubLists(all_subtitles) :
                         IF after_choice(click2, "size") # "size"
                         THEN /\ pc' = after_choice(click2, "size")
                              /\ UNCHANGED selected_subtitles
                         ELSE /\ selected_subtitles'
                                   = IF click2 = "close" THEN <<>> ELSE subs
                              /\ pc' = "size"
  /\ UNCHANGED <<aux_vars, state_file, persisted0, state, mkv_files, track_info,
                 num_processes, jobs, results, failed_files, hist, fresh>>

\* lines 877-879
Size ==
  /\ pc = "size"
  /\ \E cpu_count \in CpuCounts, available_memory \in AvailableMemories,
        cpu_percent \in CpuPercents :
       num_processes' =
         calculate_optimal_processes(cpu_count, available_memory, cpu_percent)
  /\ pc' = after_sizing
  /\ UNCHANGED <<aux_vars, state_file, persisted0, state, mkv_files, track_info,
                 selected_audio_tracks, selected_subtitles, jobs, results,
                 failed_files, hist, fresh>>

\* lines 881-887: the tasks of the files not yet processed are queued.
Dispatch ==
  /\ pc = "dispatch"
  /\ jobs' = [f \in Files |->
                IF f \in SetOf(mkv_files) /\ ~is_processed(state, f)
                THEN [IdleJob EXCEPT !.pc = "queued"] ELSE IdleJob]
  /\ pc' = "pool"
  /\ UNCHANGED <<aux_vars, state_file, persisted0, state, mkv_files, track_info,
                 selected_audio_tracks, selected_subtitles, num_processes,
                 results, failed_files, hist, fresh>>

\* lines 887-913: starmap returns once every task is done (it raises the
\* exception of a task that raised), then the summary is built.
Collect ==
  /\ pc = "pool"
  /\ \A f \in Dispatched : jobs[f].pc = "done"
  /\ IF \E f \in Dispatched : jobs[f].ret = "raised"
     THEN pc' = "raised" /\ UNCHANGED <<results, failed_files>>
     ELSE /\ results' = [i \in 1..Len(SelectSeq(mkv_files,
                                       LAMBDA f : f \in Dispatched)) |->
                           jobs[SelectSeq(mkv_files,
                                  LAMBDA f : f \in Dispatched)[i]].ret]
          /\ failed_files' = get_failed_files(state)
          /\ pc' = "Done"
  /\ UNCHANGED <<aux_vars, state_file, persisted0, state, mkv_files, track_info,
                 selected_audio_tracks, selected_subtitles, num_processes,
                 jobs, hist, fresh>>

\* State files an earlier run may have left.
PersistedFiles ==
  {MissingFile,
   StateDoc(<<FileNames[1]>>, EmptyDict),
   StateDoc(<<>>, DictSet(EmptyDict, FileNames[1], <<"x">>))}

Init ==
  /\ state_file \in PersistedFiles
  /\ persisted0 = state_file
  /\ pc = "start"
  /\ state = NewState
  /\ mkv_files \in {SubSeq(FileNames, 1, n) : n \in 0..MaxFiles}
  /\ track_info = <<>>
  /\ selected_audio_tracks = <<>>
  /\ selected_subtitles = <<>>
  /\ num_processes = 0
  /\ jobs = [f \in Files |-> IdleJob]
  /\ results = <<>>
  /\ failed_files = EmptyDict
  /\ hist = NoCall
  /\ fresh = NewState
  /\ file_tracks = NoFileTracks
  /\ resources = NoResources
  /\ matcher = NoMatcher
  /\ vjob = NoVJob

JobNext ==
  \E f \in Files :
    \/ JobIsProcessed(f)
    \/ JobCheckSpace(f)
    \/ JobRun(f)
    \/ JobVerify(f)
    \/ JobMarkProcessed(f)
    \/ JobExcept(f)
    \/ JobSaveState(f)

Next ==
  \/ Start
  \/ ListFiles
  \/ Analyze
  \/ Select
  \/ Size
  \/ Dispatch
  \/ \E f \in Files : JobStart(f)
  \/ JobNext
  \/ Collect

Spec == Init /\ [][Next]_vars

\* The run under a scheduler that lets every enabled step of the run and of
\* its workers happen (every call of an external tool returns, the sizer
\* returns), and a user who does not go back in the selection windows for
\* ever.
Progress ==
  \/ Start
  \/ ListFiles
  \/ Analyze
  \/ Dispatch
  \/ \E f \in Files : JobStart(f)
  \/ JobNext
  \/ Collect

SelectionEnds == Select /\ pc' # "select"

\* The step of Size, whatever the host readings are.
SizerReturns ==
  /\ pc = "size"
  /\ num_processes' \in MIN_PROCESSES..MAX_PROCESSES
  /\ pc' = after_sizing
  /\ UNCHANGED <<aux_vars, state_file, persisted0, state, mkv_files, track_info,
                 selected_audio_tracks, selected_subtitles, jobs, results,
                 failed_files, hist, fresh>>

\* A run that finds no state file of an earlier run (Start removes the file
\* of an earlier run before anything reads it).
InitLive == Init /\ state_file = MissingFile

LiveSpec ==
  /\ InitLive /\ [][Next]_vars
  /\ WF_vars(Progress)
  /\ SF_vars(SelectionEnds)
  /\ WF_vars(SizerReturns)


\* ------------------------------------- ProcessingState used on its own
\* A caller constructs a ProcessingState on a state file and calls its
\* methods one after the other; hist keeps the last call with the store it
\* was made on, and which call came before it.
Call(op, filename, error) ==
  [op |-> op, filename |-> filename, error |-> error, pre |-> state,
   prev_op |-> hist.op, prev_filename |-> hist.filename]

\* State files a ProcessingState may be constructed on: none, zero bytes,
\* text that is not JSON, JSON that is no object, and objects whose members
\* are absent, of a wrong type, or as save_state writes them.
LoadFiles ==
  {MissingFile, EmptyFile, GarbageFile, RawFile("array")}
  \cup {JsonObject(pf, ff) :
          pf \in {NoPf,
                  [tag |-> "num", items |-> <<>>],
                  [tag |-> "nested", items |-> <<>>],
                  [tag |-> "str", items |-> <<"m">>],
                  [tag |-> "str", items |-> <<"m", "k">>]}
                 \cup {[tag |-> "list", items |-> l] :
                         l \in UNION {ListsOf(S) : S \in SUBSET Files}},
          ff \in {NoFf}
                 \cup {[tag |-> "dict", map |-> d] :
                         d \in UNION {[S -> Reasons] : S \in SUBSET Files}}}

\* State files the caller of the store starts on.
StoreFiles == {MissingFile}

store_vars ==
  <<aux_vars, persisted0, mkv_files, track_info, selected_audio_tracks,
    selected_subtitles, num_processes, jobs, results, failed_files>>

\* lines 59-63
StoreConstruct ==
  /\ pc = "new"
  /\ state' = ProcessingState(state_file)
  /\ pc' = "store"
  /\ UNCHANGED <<state_file, hist, fresh, store_vars>>

\* lines 88-93
StoreMarkAsProcessed(filename) ==
  /\ pc = "store"
  /\ state' = mark_as_processed(state, filename)
  /\ state_file' \in save_state(state')
  /\ hist' = Call("mark_as_processed", filename, <<>>)
  /\ fresh' = NewState
  /\ UNCHANGED <<pc, store_vars>>

\* lines 95-98
StoreMarkAsFailed(filename, error) ==
  /\ pc = "store"
  /\ state' = mark_as_failed(state, filename, error)
  /\ state_file' \in save_state(state')
  /\ hist' = Call("mark_as_failed", filename, error)
  /\ fresh' = NewState
  /\ UNCHANGED <<pc, store_vars>>

\* lines 76-86
StoreSaveState ==
  /\ pc = "store"
  /\ state_file' \in save_state(state)
  /\ hist' = Call("save_state", "", <<>>)
  /\ fresh' = NewState
  /\ UNCHANGED <<pc, state, store_vars>>

\* lines 59-74: a second ProcessingState is constructed on the same file (and
\* dropped when the caller goes on).
StoreLoadFresh ==
  /\ pc = "store"
  /\ fresh' = ProcessingState(state_file)
  /\ hist' = Call("load_state", "", <<>>)
  /\ UNCHANGED <<pc, state, state_file, store_vars>>

InitStore ==
  /\ state_file \in StoreFiles
  /\ persisted0 = state_file
  /\ pc = "new"
  /\ state = NewState
  /\ mkv_files = <<>>
  /\ track_info = <<>>
  /\ selected_audio_tracks = <<>>
  /\ selected_subtitles = <<>>
  /\ num_processes = 0
  /\ jobs = [f \in Files |-> IdleJob]
  /\ results = <<>>
  /\ failed_files = EmptyDict
  /\ hist = NoCall
  /\ fresh = NewState
  /\ file_tracks = NoFileTracks
  /\ resources = NoResources
  /\ matcher = NoMatcher
  /\ vjob = NoVJob

InitLoad ==
  /\ state_file \in LoadFiles
  /\ persisted0 = state_file
  /\ pc = "new"
  /\ state = NewState
  /\ mkv_files = <<>>
  /\ track_info = <<>>
  /\ selected_audio_tracks = <<>>
  /\ selected_subtitles = <<>>
  /\ num_processes = 0
  /\ jobs = [f \in Files |-> IdleJob]
  /\ results = <<>>
  /\ failed_files = EmptyDict
  /\ hist = NoCall
  /\ fresh = NewState
  /\ file_tracks = NoFileTracks
  /\ resources = NoResources
  /\ matcher = NoMatcher
  /\ vjob = NoVJob

NextLoad == StoreConstruct

SpecLoad == InitLoad /\ [][NextLoad]_vars

NextStore ==
  \/ StoreConstruct
  \/ \E f \in Files : StoreMarkAsProcessed(f)
  \/ \E f \in Files, e \in Reasons : StoreMarkAsFailed(f, e)
  \/ StoreSaveState
  \/ StoreLoadFresh

SpecStore == InitStore /\ [][NextStore]_vars

\* ------------------------------------- process_single_mkv called directly
\* A caller calls process_single_mkv(.., filename, .., state) on its own
\* ProcessingState, one call after the other, for any file and as often as
\* it likes; nothing is left of the call before.
CallProcessSingleMkv(f) ==
  /\ pc = "call"
  /\ \A g \in Files : ~Active(g)
  /\ jobs' = [g \in Files |->
               IF g = f
               THEN [IdleJob EXCEPT !.pc = "entry", !.shared = TRUE,
                                    !.st = state]
               ELSE IdleJob]
  /\ UNCHANGED <<state, state_file, orch_vars>>

InitJob ==
  /\ state_file = MissingFile
  /\ persisted0 = state_file
  /\ pc = "call"
  /\ state = NewState
  /\ mkv_files = <<>>
  /\ track_info \in Catalogs
  /\ selected_audio_tracks
       \in (SubLists(OfType(track_info, "audio")) \ {<<>>}) \cup {NoSelection}
  /\ selected_subtitles \in SubLists(OfType(track_info, "subtitles"))
  /\ num_processes = 0
  /\ jobs = [f \in Files |-> IdleJob]
  /\ results = <<>>
  /\ failed_files = EmptyDict
  /\ hist = NoCall
  /\ fresh = NewState
  /\ file_tracks \in OwnCatalogs(track_info)
  /\ resources = NoResources
  /\ matcher = NoMatcher
  /\ vjob = NoVJob

NextJob ==
  \/ \E f \in Files : CallProcessSingleMkv(f)
  \/ JobNext

SpecJob == InitJob /\ [][NextJob]_vars


\* ---------------------------------------------- functions called alone
\* The batch run of AudioSubManager is not under way.
BatchIdle ==
  /\ state_file = MissingFile
  /\ persisted0 = state_file
  /\ state = NewState
  /\ mkv_files = <<>>
  /\ track_info = <<>>
  /\ selected_audio_tracks = <<>>
  /\ selected_subtitles = <<>>
  /\ jobs = [f \in Files |-> IdleJob]
  /\ results = <<>>
  /\ failed_files = EmptyDict
  /\ hist = NoCall
  /\ fresh = NewState
  /\ file_tracks = NoFileTracks

batch_vars ==
  <<state_file, persisted0, state, mkv_files, track_info,
    selected_audio_tracks, selected_subtitles, jobs, results, failed_files,
    hist, fresh, file_tracks>>

\* calculate_optimal_processes() on the host whose readings are resources.
CalculateOptimalProcesses ==
  /\ pc = "sizer"
  /\ num_processes' =
       calculate_optimal_processes(resources.cpu_count,
                                   resources.available_memory,
                                   resources.cpu_percent)
  /\ pc' = "sized"
  /\ UNCHANGED <<batch_vars, resources, matcher, vjob>>

InitSizer ==
  /\ BatchIdle
  /\ pc = "sizer"
  /\ num_processes = 0
  /\ resources \in Hosts
  /\ matcher = NoMatcher
  /\ vjob = NoVJob

NextSizer == CalculateOptimalProcesses

SpecSizer == InitSizer /\ [][NextSizer]_vars

\* find_matching_subtitle(french_subtitles, selected_subtitle): the call
\* returns, or raises.
FindMatchingSubtitle ==
  /\ pc = "matcher"
  /\ matcher.pc = "call"
  /\ LET result == find_matching_subtitle(matcher.french_subtitles,
                                          matcher.selected_subtitle)
     IN  matcher' = [matcher EXCEPT
                       !.pc = IF result.kind \in {"track", "None"}
                              THEN "returned" ELSE "raised",
                       !.result = result]
  /\ UNCHANGED <<batch_vars, pc, num_processes, resources, vjob>>

InitMatcher ==
  /\ BatchIdle
  /\ pc = "matcher"
  /\ num_processes = 0
  /\ resources = NoResources
  /\ matcher \in {MatcherCall("call", p, r, ReturnNone) :
                    p \in Pools, r \in References}
  /\ vjob = NoVJob

NextMatcher == FindMatchingSubtitle

SpecMatcher == InitMatcher /\ [][NextMatcher]_vars

\* anime_mkvtool_vostfr.process_single_mkv, lines 501-505: get_mkv_tracks
\* reports the tracks of the file, returns None when mkvmerge exits
\* non-zero, or lets the JSONDecodeError of an unreadable report through.
VGetMkvTracks ==
  /\ pc = "vostfr"
  /\ vjob.pc = "entry"
  /\ \E report \in MkvmergeReports :
       LET track_info_of_file == get_mkv_tracks(report)
           called == [vjob EXCEPT !.report = report,
                                  !.track_info = track_info_of_file]
       IN  CASE track_info_of_file = "tracks" ->
                  vjob' = [called EXCEPT !.pc = "match"]
             [] track_info_of_file = "None" ->
                  vjob' = [called EXCEPT !.pc = "done", !.ret = "False"]
             [] OTHER ->
                  vjob' = [called EXCEPT !.pc = "done",
                                         !.ret = track_info_of_file]
  /\ UNCHANGED <<batch_vars, pc, num_processes, resources, matcher>>

\* lines 507-555: the tracks of the file are matched and the command built.
VPrepareCommand ==
  /\ pc = "vostfr"
  /\ vjob.pc = "match"
  /\ LET locals == prepare_command(vjob.filename, vjob.tracks,
                                   vjob.selected_audio_tracks,
                                   vjob.selected_main_subtitle,
                                   vjob.selected_subtitles)
     IN  vjob' = [vjob EXCEPT
                    !.locals = locals,
                    !.pc = IF locals.outcome = "cmd" THEN "run" ELSE "done",
                    !.ret = IF locals.outcome = "cmd" THEN "none"
                            ELSE locals.outcome]
  /\ UNCHANGED <<batch_vars, pc, num_processes, resources, matcher>>

\* lines 557-579: subprocess.run on the command, the log of the tracks kept
\* and the return; only CalledProcessError is handled.
VRun ==
  /\ pc = "vostfr"
  /\ vjob.pc = "run"
  /\ \/ vjob' = [vjob EXCEPT
                   !.pc = "done", !.invoked = TRUE,
                   !.ret = IF vjob.selected_main_subtitle # NoTrack
                              /\ ~vjob.locals.bound
                           THEN "UnboundLocalError" ELSE "True"]
     \/ vjob' = [vjob EXCEPT !.pc = "done", !.invoked = TRUE,
                             !.ret = "False"]
     \/ vjob' = [vjob EXCEPT !.pc = "done", !.invoked = TRUE,
                             !.ret = "OSError"]
  /\ UNCHANGED <<batch_vars, pc, num_processes, resources, matcher>>

InitVostfr ==
  /\ BatchIdle
  /\ pc = "vostfr"
  /\ num_processes = 0
  /\ resources = NoResources
  /\ matcher = NoMatcher
  /\ vjob \in
       {VJob("entry", FileNames[1], tracks, audio, main, subtitles) :
          tracks \in FileCatalogs,
          audio \in SubLists(OfType(RepresentativeTracks, "audio")) \ {<<>>},
          main \in {NoTrack},
          subtitles \in {<<>>}}
       \cup
       {VJob("entry", FileNames[1], tracks, audio, main, subtitles) :
          tracks \in FileCatalogs,
          audio \in SubLists(OfType(RepresentativeTracks, "audio")) \ {<<>>},
          main \in SetOf(french_subtitles_of(RepresentativeTracks)),
          subtitles \in SubLists(french_subtitles_of(RepresentativeTracks))}

NextVostfr ==
  \/ VGetMkvTracks
  \/ VPrepareCommand
  \/ VRun

SpecVostfr == InitVostfr /\ [][NextVostfr]_vars


\* ================================================================= claims

\* C1 (as claimed; SpecStore): after any sequence of mark_as_processed and
\* mark_as_failed calls on one ProcessingState, no filename is both a member
\* of processed_files and a key of failed_files.
C1_ProcessedAndFailedDisjoint ==
  state.processed_files \cap DOMAIN state.failed_files = {}

\* C2 (Spec): no exception leaves a file job, every job that ended ended with
\* a boolean, a failure inside a job never ends process_mkv_files with an
\* exception, and the summary is reached only with a boolean outcome of
\* every dispatched file.
C2_EveryJobEndsBoolean ==
  /\ \A f \in Files :
       /\ jobs[f].ret # "raised"
       /\ jobs[f].pc = "done" => jobs[f].ret \in {"True", "False"}
  /\ pc = "raised" => Dispatched = {}
  /\ pc = "Done" =>
       /\ \A f \in Dispatched : jobs[f].pc = "done"
       /\ Len(results) = Cardinality(Dispatched)
       /\ \A i \in 1..Len(results) : results[i] \in {"True", "False"}

\* C2 witness: the batch is done, one file failed on an unexpected exception
\* and another file succeeded.
C2_Witness ==
  /\ pc = "Done"
  /\ \E f, g \in Dispatched :
       /\ jobs[f].ret = "False" /\ jobs[f].exc.type = "OSError"
       /\ jobs[g].ret = "True"

\* C3 (as claimed; Spec): at the summary, the failed mapping the orchestrator
\* reads from its state holds every file whose job returned False, with that
\* job's error message.
C3_SummaryHoldsEveryFailure ==
  pc = "Done" =>
    \A f \in Dispatched :
      jobs[f].ret = "False" =>
        /\ f \in DOMAIN failed_files
        /\ failed_files[f] = error_message(f, jobs[f].exc)

\* C4 (as claimed; Spec): whenever no file job is in flight, the state file
\* lists as processed every file whose job has completed successfully.
C4_FileListsCompletedWork ==
  (pc \in {"pool", "Done"} /\ \A g \in Files : ~Active(g)) =>
    \A f \in Files :
      (jobs[f].pc = "done" /\ jobs[f].ret = "True") =>
        /\ state_file.kind = "object"
        /\ f \in SetOf(state_file.pf.items)

\* C5 (as claimed; Spec): never are two pool workers inside save_state (the
\* state file opened for writing and not yet closed) at the same time.
C5_OneWriterAtATime ==
  Cardinality({f \in Files : jobs[f].pc = "save_state"}) <= 1

C7_ProcessedFileIsSkipped ==
  [][\A f \in Files :
       (/\ jobs[f].pc = "entry"
        /\ f \in jobs[f].st.processed_files
        /\ jobs'[f] # jobs[f]) =>
         /\ jobs'[f] = [jobs[f] EXCEPT !.pc = "done", !.ret = "True"]
         /\ ~jobs'[f].checked
         /\ ~jobs'[f].invoked
         /\ state' = state
         /\ state_file' = state_file]_vars

\* C7 witness: a direct call for a processed file has returned True with no
\* space check and no tool run.
C7_Witness ==
  \E f \in Files :
    /\ jobs[f].shared
    /\ jobs[f].pc = "done" /\ jobs[f].ret = "True"
    /\ ~jobs[f].checked /\ ~jobs[f].invoked
    /\ f \in state.processed_files
    /\ state_file.kind = "object"

\* C8 (SpecStore): mark_as_processed(f) made right after mark_as_failed(f, e)
\* leaves f processed and without a failed entry, and every other filename
\* as it was before the two calls.
C8_ProcessedAfterFailed ==
  [][(/\ hist.op = "mark_as_failed"
      /\ hist'.op = "mark_as_processed"
      /\ hist'.filename = hist.filename) =>
       LET f == hist.filename
           before == hist.pre
           names == state'.processed_files \cup before.processed_files
                      \cup DOMAIN state'.failed_files
                      \cup DOMAIN before.failed_files
       IN /\ is_processed(state', f)
          /\ f \notin DOMAIN get_failed_files(state')
          /\ \A g \in names \ {f} :
               /\ g \in state'.processed_files <=> g \in before.processed_files
               /\ g \in DOMAIN state'.failed_files
                    <=> g \in DOMAIN before.failed_files
               /\ g \in DOMAIN before.failed_files =>
                    state'.failed_files[g] = before.failed_files[g]]_vars

\* C8 witness: mark_as_processed(f) has just followed mark_as_failed(f, e),
\* on a store that holds a failed entry of another file.
C8_Witness ==
  /\ hist.op = "mark_as_processed"
  /\ hist.prev_op = "mark_as_failed"
  /\ hist.prev_filename = hist.filename
  /\ hist.filename \in DOMAIN hist.pre.failed_files
  /\ hist.filename \notin DOMAIN state.failed_files
  /\ DOMAIN state.failed_files # {}

\* C9 (SpecStore): a ProcessingState constructed on the file right after a
\* save_state (called directly or by a mark operation) has the processed set
\* and the failed mapping that were saved.
C9_SaveLoadRoundTrip ==
  (/\ hist.op = "load_state"
   /\ hist.prev_op \in {"save_state", "mark_as_processed", "mark_as_failed"}) =>
    /\ fresh.processed_files = state.processed_files
    /\ fresh.failed_files = state.failed_files

\* C9 witness: a store with two processed files and a failed entry was saved
\* and loaded again.
C9_Witness ==
  /\ hist.op = "load_state"
  /\ hist.prev_op = "mark_as_failed"
  /\ Cardinality(state.processed_files) >= 2
  /\ DOMAIN state.failed_files # {}
  /\ fresh = state

\* A state file of the two-field form: a JSON object whose processed_files,
\* if present, is a list of strings and whose failed_files, if present, is a
\* mapping.  (A file that lacks a member is counted as well formed here: the
\* claim is then only about files load_state cannot read as a state.)
WellFormed(file) ==
  /\ file.kind = "object"
  /\ file.pf.tag \in {"absent", "list"}
  /\ file.ff.tag \in {"absent", "dict"}

\* C10 (as claimed; SpecLoad): constructing a ProcessingState on a missing
\* or corrupt state file raises nothing and leaves the processed set and the
\* failed mapping empty.
C10_CorruptFileLoadsEmpty ==
  (pc = "store" /\ ~WellFormed(persisted0)) =>
    /\ load_state(NewState, persisted0).raised = "none"
    /\ state.processed_files = {}
    /\ state.failed_files = EmptyDict

\* The values that follow an option in a command, and how often it occurs.
OptionValues(command, option) ==
  {command[i + 1] : i \in {k \in 1..(Len(command) - 1) : command[k] = option}}

OptionCount(command, option) ==
  Cardinality({k \in 1..Len(command) : command[k] = option})

\* C11 (SpecSizer): for every host reading, calculate_optimal_processes
\* returns a number of processes from MIN_PROCESSES to MAX_PROCESSES.
C11_SizerWithinLimits ==
  pc = "sized" =>
    MIN_PROCESSES <= num_processes /\ num_processes <= MAX_PROCESSES

\* C11 witness: the sizer has run on a host with no free memory and a CPU
\* loaded to 100 % (memory cap and load cap are both zero) and returned
\* MIN_PROCESSES.
C11_Witness ==
  /\ pc = "sized"
  /\ resources.available_memory = 0
  /\ resources.cpu_percent = 100
  /\ num_processes = MIN_PROCESSES

\* C12 (as claimed; SpecSizer): calculate_optimal_processes returns
\* clamp(min(mem_cap, load_cap, cpu_cap), MIN_PROCESSES, MAX_PROCESSES) with
\* cpu_cap half the cores above four cores, mem_cap the floor of 80 % of the
\* free memory over 500 MiB and load_cap the floor of cpu_cap times the idle
\* share, 3 for 8 cores, 2 GiB of free memory and no load.
C12_SizerEqualsFormula ==
  pc = "sized" =>
    LET cpu_count == resources.cpu_count
        cpu_cap == IF cpu_count > 4 THEN cpu_count \div 2 ELSE cpu_count
        mem_cap == (resources.available_memory * 8)
                     \div (10 * MEMORY_PER_PROCESS_MIB)
        load_cap == (cpu_cap * (100 - resources.cpu_percent)) \div 100
        Min(a, b) == IF a < b THEN a ELSE b
        Max(a, b) == IF a > b THEN a ELSE b
    IN  /\ num_processes
             = Max(MIN_PROCESSES,
                   Min(Min(mem_cap, Min(load_cap, cpu_cap)), MAX_PROCESSES))
        /\ resources = Resources(8, 2048, 0) => num_processes = 3

\* Case-insensitive equality of the names of two tracks.
SameName(a, b) == lower(track_name(a)) = lower(track_name(b))

MatcherDone == pc = "matcher" /\ matcher.pc \in {"returned", "raised"}

\* C13 (as claimed; SpecMatcher): when the reference has a name and the pool
\* holds a track with that name (case-insensitively) and the reference's
\* codec, find_matching_subtitle returns a track of that name and that
\* codec, whatever else the pool holds.
C13_ExactMatchWins ==
  (/\ MatcherDone
   /\ matcher.selected_subtitle # NoTrack
   /\ track_name(matcher.selected_subtitle) # <<>>
   /\ \E i \in 1..Len(matcher.french_subtitles) :
        /\ SameName(matcher.french_subtitles[i], matcher.selected_subtitle)
        /\ matcher.french_subtitles[i].codec = matcher.selected_subtitle.codec)
  => /\ matcher.result.kind = "track"
     /\ SameName(matcher.result.track, matcher.selected_subtitle)
     /\ matcher.result.track.codec = matcher.selected_subtitle.codec

\* C14 (as claimed; SpecMatcher): find_matching_subtitle never raises, and
\* for a reference without a name and a non-empty pool of tracks without
\* names it returns a candidate.
C14_NoNamesNeverRaises ==
  MatcherDone =>
    /\ matcher.pc # "raised"
    /\ (/\ matcher.selected_subtitle # NoTrack
        /\ track_name(matcher.selected_subtitle) = <<>>
        /\ matcher.french_subtitles # <<>>
        /\ \A i \in 1..Len(matcher.french_subtitles) :
             track_name(matcher.french_subtitles[i]) = <<>>)
       => matcher.result.kind = "track"

\* The call is made with a reference named "Full Subs" on a pool that holds
\* a track named "Full Subtitles" and no track named "Full Subs".
FullSubsCall ==
  /\ MatcherDone
  /\ matcher.selected_subtitle # NoTrack
  /\ matcher.selected_subtitle.has_name
  /\ matcher.selected_subtitle.track_name = FullSubs
  /\ \E i \in 1..Len(matcher.french_subtitles) :
       /\ matcher.french_subtitles[i].has_name
       /\ matcher.french_subtitles[i].track_name = FullSubtitles
  /\ \A i \in 1..Len(matcher.french_subtitles) :
       ~(/\ matcher.french_subtitles[i].has_name
         /\ matcher.french_subtitles[i].track_name = FullSubs)

\* C15 (as claimed; SpecMatcher): in such a call find_matching_subtitle
\* returns the first candidate of the pool, whatever the pool holds beside
\* the "Full Subtitles" track.
C15_FullSubsFallsBack ==
  FullSubsCall => matcher.result = Found(matcher.french_subtitles[1])

\* A candidate no tier can match to the reference: its lowercased name does
\* not contain the reference's, and the two names share at most half of the
\* words of the longer one.
MatchedByNoTier(candidate, reference) ==
  LET candidate_name == lower(track_name(candidate))
      reference_name == lower(track_name(reference))
      candidate_words == SetOf(split(candidate_name))
      reference_words == SetOf(split(reference_name))
      longest == IF Cardinality(candidate_words)
                      > Cardinality(reference_words)
                 THEN Cardinality(candidate_words)
                 ELSE Cardinality(reference_words)
  IN  /\ ~Contains(reference_name, candidate_name)
      /\ 2 * Cardinality(candidate_words \cap reference_words) <= longest

\* C15 (amended; SpecMatcher): in such a call a "Full Subtitles" track is
\* returned only as the first candidate of the pool (no tier matches it),
\* and when no tier can match any other track of the pool either, the call
\* returns the first candidate of the pool.
C15_FullSubtitlesOnlyByFallback ==
  FullSubsCall =>
    /\ matcher.result.kind = "track"
    /\ (matcher.result.track.has_name
        /\ matcher.result.track.track_name = FullSubtitles)
       => matcher.result.track = matcher.french_subtitles[1]
    /\ (\A i \in 1..Len(matcher.french_subtitles) :
          MatchedByNoTier(matcher.french_subtitles[i],
                          matcher.selected_subtitle))
       => matcher.result = Found(matcher.french_subtitles[1])

\* C15 witness: such a call has returned the first candidate of a pool whose
\* "Full Subtitles" track stands second, behind a track no tier can match.
C15_Witness ==
  /\ FullSubsCall
  /\ Len(matcher.french_subtitles) >= 2
  /\ matcher.french_subtitles[2].has_name
  /\ matcher.french_subtitles[2].track_name = FullSubtitles
  /\ track_name(matcher.french_subtitles[1]) # FullSubtitles
  /\ matcher.result = Found(matcher.french_subtitles[1])

\* C16 (as claimed; SpecMatcher): find_matching_subtitle returns None only
\* when the pool is empty or no reference is given, and returns the first
\* candidate of a non-empty pool when the exact, the partial and the
\* similarity search matched nothing for the reference given.
C16_NoneOnlyWithoutCandidates ==
  MatcherDone =>
    LET pool == matcher.french_subtitles
        reference == matcher.selected_subtitle
        selected_name == lower(track_name(reference))
    IN  /\ matcher.result.kind = "None"
             <=> (pool = <<>> \/ reference = NoTrack)
        /\ (/\ pool # <<>>
            /\ reference # NoTrack
            /\ exact_match(pool, selected_name, reference.codec).kind
                 # "track"
            /\ partial_match(pool, selected_name).kind # "track"
            /\ similarity_match(pool, 1, selected_name, NoTrack, 0, 1).kind
                 # "track")
           => matcher.result = Found(pool[1])

\* C17 (as claimed; SpecJob, AudioSubManager.process_single_mkv): every id
\* the command of a file names as an audio (a subtitle) track is the id of
\* an audio (a subtitle) track of that file.
C17_CommandUsesOwnTrackIds ==
  \A f \in Files :
    jobs[f].invoked =>
      /\ OptionValues(jobs[f].command, "--audio-tracks")
           \subseteq {IdStr(t.id) : t \in SetOf(OfType(file_tracks[f],
                                                        "audio"))}
      /\ OptionValues(jobs[f].command, "--subtitle-tracks")
           \subseteq {IdStr(t.id) : t \in SetOf(OfType(file_tracks[f],
                                                        "subtitles"))}

\* C18 (as claimed; SpecVostfr): a call whose file has no audio track to
\* match, or no French subtitle to match the main subtitle requested,
\* returns False and does not run mkvmerge on the file.
C18_UnmatchedTrackFailsJob ==
  (/\ pc = "vostfr"
   /\ vjob.pc = "done"
   /\ vjob.locals.outcome # "none"
   /\ \/ OfType(vjob.tracks, "audio") = <<>>
      \/ /\ vjob.selected_main_subtitle # NoTrack
         /\ french_subtitles_of(vjob.tracks) = <<>>)
  => vjob.ret = "False" /\ ~vjob.invoked

\* C19 (as claimed; SpecJob, AudioSubManager.process_single_mkv): the
\* command of a file holds one --audio-tracks option with the comma-joined
\* ids of all audio tracks kept, at most one --subtitle-tracks option with
\* the comma-joined ids of all subtitles kept, and the input path last.
C19_OneOptionPerTrackType ==
  \A f \in Files :
    jobs[f].invoked =>
      LET command == jobs[f].command
          ids(tracks) == [i \in 1..Len(tracks) |-> tracks[i].id]
      IN  /\ OptionCount(command, "--audio-tracks") = 1
          /\ OptionValues(command, "--audio-tracks")
               = {Join(ids(selected_audio_tracks))}
          /\ OptionCount(command, "--subtitle-tracks") <= 1
          /\ OptionValues(command, "--subtitle-tracks")
               \subseteq {Join(ids(selected_subtitles))}
          /\ command[Len(command)] = f

\* C20 (SpecJob): a call whose mkvmerge run exited non-zero returns False,
\* leaves its file out of processed_files and records for it, in
\* failed_files of the ProcessingState it was given, a message that holds
\* the stderr text of the run.
C20_NonZeroExitRecordsStderr ==
  \A f \in Files :
    (jobs[f].pc = "done" /\ jobs[f].exc.type = "CalledProcessError") =>
      /\ jobs[f].ret = "False"
      /\ f \notin jobs[f].st.processed_files
      /\ f \in DOMAIN jobs[f].st.failed_files
      /\ \A i \in 1..Len(jobs[f].exc.text) :
           jobs[f].exc.text[i] \in SetOf(jobs[f].st.failed_files[f])

\* C20 witness: a call has returned after a non-zero exit of mkvmerge with
\* stderr text.
C20_Witness ==
  \E f \in Files :
    /\ jobs[f].pc = "done"
    /\ jobs[f].invoked
    /\ jobs[f].exc.type = "CalledProcessError"
    /\ jobs[f].exc.text # <<>>
    /\ jobs[f].ret = "False"

\* C21 (as claimed; SpecVostfr): get_mkv_tracks gives its caller None when
\* mkvmerge -J exits non-zero and when its standard output is no JSON, and
\* raises nothing.
C21_UnreadableFileGivesNone ==
  (pc = "vostfr" /\ vjob.report \in {"nonzero", "badjson"}) =>
    vjob.track_info = "None"

\* C22 (as claimed; SpecVostfr): every call of
\* anime_mkvtool_vostfr.process_single_mkv ends by returning True or False;
\* no exception leaves the call.
C22_VostfrJobEndsBoolean ==
  (pc = "vostfr" /\ vjob.pc = "done") => vjob.ret \in {"True", "False"}

\* C30 (as claimed; SpecVostfr): in the command that
\* anime_mkvtool_vostfr.process_single_mkv builds, no track id occurs twice
\* in the list of --audio-tracks or in the list of --subtitle-tracks.
C30_NoTrackIdTwice ==
  (pc = "vostfr" /\ vjob.locals.outcome = "cmd") =>
    LET audio_ids == [i \in 1..Len(vjob.locals.matching_audio_tracks) |->
                        vjob.locals.matching_audio_tracks[i].id]
        subtitle_ids == vjob.locals.subtitle_tracks_to_keep
    IN  /\ Cardinality(SetOf(audio_ids)) = Len(audio_ids)
        /\ Cardinality(SetOf(subtitle_ids)) = Len(subtitle_ids)

\* C24 (as claimed; SpecMatcher): when several candidates of the pool have
\* the name of a named reference (case-insensitively) and its codec,
\* find_matching_subtitle returns the first of them in the order of the
\* pool.
C24_FirstExactMatchWins ==
  (/\ MatcherDone
   /\ matcher.selected_subtitle # NoTrack
   /\ track_name(matcher.selected_subtitle) # <<>>) =>
    LET pool == matcher.french_subtitles
        reference == matcher.selected_subtitle
        exact == {i \in 1..Len(pool) :
                    /\ SameName(pool[i], reference)
                    /\ pool[i].codec = reference.codec}
    IN  Cardinality(exact) >= 2 =>
          matcher.result
            = Found(pool[CHOOSE i \in exact : \A j \in exact : i <= j])

\* C25 (as claimed; SpecMatcher): when the exact and the partial search of
\* find_matching_subtitle match nothing, it returns the candidate whose
\* share of common words |A \cap B| / max(|A|, |B|) with the reference is
\* the highest (0 when both have no word), the earliest of the pool among
\* equals, provided that share is above one half, and the first candidate
\* of the pool when it is not.
C25_BestSimilarityAboveHalf ==
  (/\ MatcherDone
   /\ matcher.selected_subtitle # NoTrack
   /\ matcher.french_subtitles # <<>>
   /\ exact_match(matcher.french_subtitles,
                  lower(track_name(matcher.selected_subtitle)),
                  matcher.selected_subtitle.codec).kind # "track"
   /\ partial_match(matcher.french_subtitles,
                    lower(track_name(matcher.selected_subtitle))).kind
        # "track")
  => LET pool == matcher.french_subtitles
         words(t) == SetOf(split(lower(track_name(t))))
         A == words(matcher.selected_subtitle)
         num(i) == Cardinality(A \cap words(pool[i]))
         longest(i) == IF Cardinality(A) > Cardinality(words(pool[i]))
                       THEN Cardinality(A)
                       ELSE Cardinality(words(pool[i]))
         den(i) == IF longest(i) = 0 THEN 1 ELSE longest(i)
         Higher(i, j) == num(i) * den(j) > num(j) * den(i)
         best == CHOOSE i \in 1..Len(pool) :
                   /\ \A j \in 1..Len(pool) : ~Higher(j, i)
                   /\ \A j \in 1..(i - 1) : Higher(i, j)
     IN  matcher.result
           = IF 2 * num(best) > den(best)
             THEN Found(pool[best]) ELSE Found(pool[1])

\* The call of process_single_mkv for f went past the test of
\* state.is_processed(filename): the free space was measured, or measuring
\* it raised.
NotYetProcessed(f) == jobs[f].checked \/ jobs[f].exc.type # "none"

\* C26 (SpecJob): a call of process_single_mkv for a file not yet processed
\* returns True with the file in processed_files and not in failed_files of
\* the ProcessingState it was given when mkvmerge exited zero and the
\* output file is there, and otherwise returns False with the file in
\* failed_files and not in processed_files.
C26_OneRecordPerCall ==
  \A f \in Files :
    (jobs[f].pc = "done" /\ NotYetProcessed(f)) =>
      LET succeeded == jobs[f].invoked /\ jobs[f].exc.type = "none"
          processed == f \in jobs[f].st.processed_files
          failed == f \in DOMAIN jobs[f].st.failed_files
      IN  /\ jobs[f].ret = (IF succeeded THEN "True" ELSE "False")
          /\ processed <=> succeeded
          /\ failed <=> ~succeeded

\* C26 witness: two calls have returned on the same ProcessingState, one
\* recorded as processed and one as failed.
C26_Witness ==
  \E f \in Files :
    /\ jobs[f].pc = "done"
    /\ NotYetProcessed(f)
    /\ jobs[f].ret = "False"
    /\ f \in DOMAIN jobs[f].st.failed_files
    /\ \E g \in Files \ {f} : g \in jobs[f].st.processed_files

\* C27 (SpecJob): a call of process_single_mkv that measured less free
\* space than 1.5 times the size of its file never runs mkvmerge, records
\* the file as failed and returns False; a call that measured at least 1.5
\* times the size goes on to the command and does not fail for lack of
\* space.
C27_SpaceCheckGuardsTheRun ==
  \A f \in Files :
    jobs[f].checked =>
      IF 2 * jobs[f].free_space < 3 * jobs[f].file_size
      THEN /\ ~jobs[f].invoked
           /\ jobs[f].pc \in {"except", "save_state", "done"}
           /\ jobs[f].exc.type = "ProcessingError"
           /\ jobs[f].pc = "done" =>
                /\ jobs[f].ret = "False"
                /\ f \in DOMAIN jobs[f].st.failed_files
                /\ f \notin jobs[f].st.processed_files
      ELSE /\ jobs[f].exc.type # "ProcessingError" \/ jobs[f].invoked
           /\ jobs[f].pc = "run" \/ jobs[f].invoked
                \/ jobs[f].exc.type = "TypeError"

\* C27 witness: a call has returned False after it measured free space
\* between the size of its file and 1.5 times that size.
C27_Witness ==
  \E f \in Files :
    /\ jobs[f].pc = "done"
    /\ jobs[f].checked
    /\ jobs[f].file_size <= jobs[f].free_space
    /\ 2 * jobs[f].free_space < 3 * jobs[f].file_size
    /\ jobs[f].ret = "False"

\* C23 (Spec): when the input directory holds no .mkv file, or the user
\* cancels in a selection window, process_mkv_files has ended (no step of
\* the run is left): the sizer was not called, no job was dispatched,
\* mkvmerge was run on no file, no summary was built, and neither the
\* ProcessingState nor the state file holds a processed or failed entry.
C23_CancelOrEmptyInputEndsRun ==
  (\/ mkv_files = <<>> /\ pc \notin {"start", "list"}
   \/ pc = "Canceled")
  => /\ pc \in {"EmptyInput", "Canceled"}
     /\ ~ENABLED Next
     /\ num_processes = 0
     /\ \A f \in Files : jobs[f] = IdleJob
     /\ results = <<>>
     /\ failed_files = EmptyDict
     /\ state = NewState
     /\ state_file = MissingFile

\* C23 witness: the run has ended on a cancel in the subtitle window, after
\* the audio tracks were chosen.
C23_Witness ==
  /\ pc = "Canceled"
  /\ mkv_files # <<>>
  /\ selected_audio_tracks # <<>>

\* C28 (Spec): the sizer is called when no job is dispatched and it was not
\* called before, with the audio selection made; from dispatch on, the
\* selection and the number of processes stay what they were, the run never
\* is in selection or sizing again, and the command of every job names the
\* tracks of that one selection.
C28_SelectionAndSizingBeforeDispatch ==
  [][/\ pc = "size" =>
          /\ num_processes = 0
          /\ Dispatched = {}
          /\ selected_audio_tracks # <<>>
     /\ num_processes' # num_processes => pc = "size"
     /\ (pc \in {"dispatch", "pool"} \/ Dispatched # {}) =>
          /\ UNCHANGED <<selected_audio_tracks, selected_subtitles,
                         num_processes>>
          /\ pc' \notin {"select", "size"}
          /\ num_processes \in MIN_PROCESSES..MAX_PROCESSES
     /\ \A f \in Files :
          jobs'[f].invoked =>
            /\ OptionValues(jobs'[f].command, "--audio-tracks")
                 = {IdStr(selected_audio_tracks[i].id) :
                      i \in 1..Len(selected_audio_tracks)}
            /\ OptionValues(jobs'[f].command, "--subtitle-tracks")
                 = {IdStr(selected_subtitles[i].id) :
                      i \in 1..Len(selected_subtitles)}]_vars

\* C28 witness: two jobs have run mkvmerge in a run whose selection holds a
\* subtitle.
C28_Witness ==
  /\ pc = "pool"
  /\ selected_subtitles # <<>>
  /\ Cardinality({f \in Files : jobs[f].invoked}) >= 2

\* The run has ended.
Ended == pc \in {"Done", "Canceled", "EmptyInput", "Aborted", "raised"}

====
